---- MODULE Spec2Model ----
(***************************************************************************)
(* Meal-planning engine: the Convex tables `dishes` and `mealPlans`, the   *)
(* mutations of convex/mealPlans.ts and convex/dishes.ts, and the read     *)
(* paths getWeek, getAvailableLeftovers, getLeftoverSources                *)
(* (convex/mealPlans.ts) and getWeekShoppingList (convex/shoppingList.ts). *)
(*                                                                         *)
(* Documents are records carrying their _id; a table is the set of its     *)
(* live documents.  Ids are issued in creation order and never reused, so  *)
(* ascending _id is the _creationTime order in which an index returns the  *)
(* documents.  An absent optional id is NoId, an absent optional string is *)
(* NoName.  Day keys ("YYYY-MM-DD") are day numbers, instants are hours    *)
(* since day 0 00:00 UTC.  Quantities are exact rationals [num, den];       *)
(* binary floating-point error is not modelled.                            *)
(***************************************************************************)
EXTENDS Integers, Sequences, FiniteSets, TLC

VARIABLES
    mealPlans,   \* table mealPlans: the set of live documents
    dishes,      \* table dishes: the set of live documents
    mealCount,   \* number of mealPlans ids issued so far
    dishCount,   \* number of dishes ids issued so far
    tz,          \* time zone of the runtime that evaluates Date
    requests,    \* voidLeftovers calls in flight: one transaction each
    listed       \* what the last getWeekShoppingList call read and returned

vars == <<mealPlans, dishes, mealCount, dishCount, tz, requests, listed>>

----------------------------------------------------------------------------
(* Bounds of the model *)

MaxMeals == 2
MaxDishes == 2

NoId == 0
NoName == "undefined"

HOUSEHOLD_ID == "household-1"
OtherHousehold == "household-2"

MaxRequests == 2
MaxChain == 3
MealIds == 1..MaxMeals
DishIds == 1..MaxDishes

----------------------------------------------------------------------------
(* The document store: ctx.db *)

Ctx == [mealPlans |-> mealPlans, dishes |-> dishes, tz |-> tz]

Exists(table, id) == \E d \in table : d._id = id

Get(table, id) == CHOOSE d \in table : d._id = id

RECURSIVE Collect(_)
Collect(table) ==
    IF table = {} THEN <<>>
    ELSE LET first == CHOOSE d \in table : \A e \in table : d._id <= e._id
         IN  <<first>> \o Collect(table \ {first})

ByHouseholdId(table, householdId) ==
    Collect({d \in table : d.householdId = householdId})

ByDishId(table, dishId) ==
    Collect({d \in table : d.dishId = dishId})

Insert(table, count, fields) == table \cup {[_id |-> count + 1] @@ fields}

Patch(table, id, fields) ==
    {IF d._id = id THEN fields @@ d ELSE d : d \in table}

Delete(table, id) == {d \in table : d._id # id}

RECURSIVE SumServings(_)
SumServings(meals) ==
    IF meals = <<>> THEN 0
    ELSE Head(meals).servingsUsed + SumServings(Tail(meals))

Max(a, b) == IF a >= b THEN a ELSE b

----------------------------------------------------------------------------
(* Leftover accounting: convex/mealPlans.ts *)

IsEaten_OrPlanned(m) == m.status # "skipped"

IsEaten(m) == m.status = "eaten"

TotalUsed(relatedMeals) == SumServings(SelectSeq(relatedMeals, IsEaten))

\* Follows the links two levels deep.
RelatedMeals_Transitive(meals, sourceMealId) ==
    SelectSeq(meals,
              LAMBDA m : \/ m._id = sourceMealId
                         \/ m.sourceMealId = sourceMealId
                         \/ \E i \in DOMAIN meals :
                                /\ meals[i].sourceMealId = sourceMealId
                                /\ m.sourceMealId = meals[i]._id)

RelatedMeals(meals, sourceMealId) ==
    SelectSeq(meals,
              LAMBDA m : m._id = sourceMealId \/ m.sourceMealId = sourceMealId)

Remaining(ctx, sourceMeal) ==
    LET dish == Get(ctx.dishes, sourceMeal.dishId)
        allMeals == ByDishId(ctx.mealPlans, sourceMeal.dishId)
        relatedMeals == RelatedMeals(allMeals, sourceMeal._id)
    IN  dish.defaultServings - TotalUsed(relatedMeals)

Clamp_NoFloor(available) == available

Clamp(available) == Max(0, available)

getAvailableLeftovers_DefaultOne(ctx, sourceMealId) ==
    IF ~Exists(ctx.mealPlans, sourceMealId) THEN 0
    ELSE LET sourceMeal == Get(ctx.mealPlans, sourceMealId)
             allMeals == ByDishId(ctx.mealPlans, sourceMeal.dishId)
         IN  IF sourceMeal.dishId = NoId THEN 0
             ELSE IF ~Exists(ctx.dishes, sourceMeal.dishId)
                  THEN Clamp(1 - TotalUsed(RelatedMeals(allMeals, sourceMealId)))
             ELSE Clamp(Remaining(ctx, sourceMeal))

getAvailableLeftovers(ctx, sourceMealId) ==
    IF ~Exists(ctx.mealPlans, sourceMealId) THEN 0
    ELSE LET sourceMeal == Get(ctx.mealPlans, sourceMealId)
         IN  IF sourceMeal.dishId = NoId THEN 0
             ELSE IF ~Exists(ctx.dishes, sourceMeal.dishId) THEN 0
             ELSE Clamp(Remaining(ctx, sourceMeal))

IsSourceMeal(m) == m.status = "eaten" /\ ~m.isLeftover /\ m.dishId # NoId

IsAvailable_OrZero(available) == available >= 0

IsAvailable(available) == available > 0

RECURSIVE LeftoverResults(_, _, _)
LeftoverResults(ctx, meals, sourceMeals) ==
    IF sourceMeals = <<>> THEN <<>>
    ELSE LET meal == Head(sourceMeals)
             rest == LeftoverResults(ctx, meals, Tail(sourceMeals))
         IN  IF meal.dishId = NoId \/ ~Exists(ctx.dishes, meal.dishId) THEN rest
             ELSE LET dish == Get(ctx.dishes, meal.dishId)
                      relatedMeals == RelatedMeals(meals, meal._id)
                      available == dish.defaultServings - TotalUsed(relatedMeals)
                  IN  IF IsAvailable(available)
                      THEN <<[meal |-> meal, dish |-> dish,
                              available |-> available]>> \o rest
                      ELSE rest

getLeftoverSources(ctx, householdId) ==
    LET meals == ByHouseholdId(ctx.mealPlans, householdId)
        sourceMeals == SelectSeq(meals, IsSourceMeal)
    IN  LeftoverResults(ctx, meals, sourceMeals)

----------------------------------------------------------------------------
(* Date: the week window of getWeek and getWeekShoppingList.               *)
(* new Date("YYYY-MM-DD") is midnight UTC of that day; getDate and setDate *)
(* read and write the fields of the runtime's local time; toISOString      *)
(* prints the UTC date.  Day 0 is Monday 2026-03-02; America/Los_Angeles   *)
(* moves from UTC-8 to UTC-7 on Sunday 2026-03-08 (day 6) at 10:00 UTC.    *)

ZoneRule(zone) ==
    IF zone = "America/Los_Angeles"
    THEN [std |-> -8, dst |-> -7, start |-> 6 * 24 + 10]
    ELSE [std |-> 0, dst |-> 0, start |-> 0]

OffsetAt(zone, t) ==
    IF t >= ZoneRule(zone).start THEN ZoneRule(zone).dst ELSE ZoneRule(zone).std

DateParse(dayKey) == dayKey * 24

LocalTime(zone, t) == t + OffsetAt(zone, t)

\* The instant of a local wall-clock time; a wall-clock time the transition
\* skips is read with the offset in force before the transition.
UTCOf(zone, wall) ==
    LET viaStd == wall - ZoneRule(zone).std
        viaDst == wall - ZoneRule(zone).dst
    IN  IF LocalTime(zone, viaStd) = wall THEN viaStd
        ELSE IF LocalTime(zone, viaDst) = wall THEN viaDst
        ELSE viaStd

\* d.setDate(d.getDate() + i)
SetDatePlus(zone, t, i) == UTCOf(zone, LocalTime(zone, t) + 24 * i)

\* d.toISOString().split("T")[0]
ISODate(t) == t \div 24

WeekDates(zone, startDate) ==
    [i \in 1..7 |-> ISODate(SetDatePlus(zone, DateParse(startDate), i - 1))]

Includes(dates, day) == \E i \in DOMAIN dates : dates[i] = day

----------------------------------------------------------------------------
(* getWeek: convex/mealPlans.ts *)

NullDish == [kind |-> "null"]
UndefinedDish == [kind |-> "undefined"]

JoinDish(ctx, meal) ==
    IF meal.dishId = NoId THEN NullDish
    ELSE IF Exists(ctx.dishes, meal.dishId)
         THEN [kind |-> "doc", doc |-> Get(ctx.dishes, meal.dishId)]
         ELSE UndefinedDish

RECURSIVE MapJoin(_, _)
MapJoin(ctx, meals) ==
    IF meals = <<>> THEN <<>>
    ELSE <<[dish |-> JoinDish(ctx, Head(meals))] @@ Head(meals)>>
             \o MapJoin(ctx, Tail(meals))

getWeek(ctx, householdId, startDate) ==
    LET dates == WeekDates(ctx.tz, startDate)
        meals == ByHouseholdId(ctx.mealPlans, householdId)
        weekMeals == SelectSeq(meals, LAMBDA m : Includes(dates, m.day))
    IN  MapJoin(ctx, weekMeals)

\* getOne: null for a missing entry, otherwise the entry with its dish, which
\* ctx.db.get gives as null when the dish document is gone.
getOne(ctx, id) ==
    IF ~Exists(ctx.mealPlans, id) THEN [kind |-> "null"]
    ELSE LET meal == Get(ctx.mealPlans, id)
             dish == IF meal.dishId # NoId /\ Exists(ctx.dishes, meal.dishId)
                     THEN [kind |-> "doc", doc |-> Get(ctx.dishes, meal.dishId)]
                     ELSE NullDish
         IN  [kind |-> "doc", doc |-> [dish |-> dish] @@ meal]

----------------------------------------------------------------------------
(* Numbers of the shopping list: exact rationals [num, den], den > 0 *)

RECURSIVE GCD(_, _)
GCD(a, b) == IF b = 0 THEN a ELSE GCD(b, a % b)

Abs(n) == IF n < 0 THEN -n ELSE n

Rat(n, d) ==
    LET g == GCD(Abs(n), d) IN [num |-> n \div g, den |-> d \div g]

RatAdd(a, b) == Rat(a.num * b.den + b.num * a.den, a.den * b.den)

RatTimes(k, a) == Rat(k * a.num, a.den)

\* Math.round(q * 100) / 100; Math.round rounds a half up.
Round2(q) == Rat((200 * q.num + q.den) \div (2 * q.den), 100)

----------------------------------------------------------------------------
(* String.prototype.localeCompare for the characters the model uses: the   *)
(* collation compares symbols before digits before letters, letters        *)
(* without regard to case first, and lower case before upper case among    *)
(* strings that differ in case only.                                       *)

Symbols == " ()|"
Lower == "abcdefghijklmnopqrstuvwxyz"
Upper == "ABCDEFGHIJKLMNOPQRSTUVWXYZ"

CharAt(str, i) == SubSeq(str, i, i)

IndexIn(str, c) ==
    IF \E i \in 1..Len(str) : CharAt(str, i) = c
    THEN CHOOSE i \in 1..Len(str) : CharAt(str, i) = c
    ELSE 0

PrimaryWeight(c) ==
    IF IndexIn(Symbols, c) > 0 THEN IndexIn(Symbols, c)
    ELSE IF IndexIn(Lower, c) > 0 THEN Len(Symbols) + IndexIn(Lower, c)
    ELSE Len(Symbols) + IndexIn(Upper, c)

CaseWeight(c) == IF IndexIn(Upper, c) > 0 THEN 1 ELSE 0

\* The weight of a character at a comparison level.
WeightAt(level, c) ==
    IF level = "primary" THEN PrimaryWeight(c) ELSE CaseWeight(c)

RECURSIVE CompareBy(_, _, _, _)
CompareBy(level, a, b, i) ==
    IF i > Len(a) /\ i > Len(b) THEN 0
    ELSE IF i > Len(a) THEN -1
    ELSE IF i > Len(b) THEN 1
    ELSE IF WeightAt(level, CharAt(a, i)) < WeightAt(level, CharAt(b, i))
         THEN -1
    ELSE IF WeightAt(level, CharAt(a, i)) > WeightAt(level, CharAt(b, i))
         THEN 1
    ELSE CompareBy(level, a, b, i + 1)

LocaleCompare(a, b) ==
    IF CompareBy("primary", a, b, 1) # 0
    THEN CompareBy("primary", a, b, 1)
    ELSE CompareBy("case", a, b, 1)

\* Array.prototype.sort((a, b) => a.name.localeCompare(b.name)): stable.
RECURSIVE InsertByName(_, _)
InsertByName(sorted, x) ==
    IF sorted = <<>> THEN <<x>>
    ELSE LET n == Len(sorted)
         IN  IF LocaleCompare(sorted[n].name, x.name) <= 0
             THEN Append(sorted, x)
             ELSE Append(InsertByName(SubSeq(sorted, 1, n - 1), x), sorted[n])

RECURSIVE SortByName(_)
SortByName(items) ==
    IF items = <<>> THEN <<>>
    ELSE InsertByName(SortByName(SubSeq(items, 1, Len(items) - 1)),
                      items[Len(items)])

----------------------------------------------------------------------------
(* getWeekShoppingList: convex/shoppingList.ts *)

IngredientKey(ing) == ing.name \o "|" \o ing.unit \o "|" \o ing.category

CountsForShopping_EatenOnly(m) == m.status = "eaten"

CountsForShopping_Any(m) == m.status \in {"planned", "eaten", "skipped"}

CountsForShopping(m) == m.status # "skipped"

ServingRatio(meal, dish) == Rat(meal.servingsUsed, dish.defaultServings)

\* Rounds each contribution before adding it.
AddIngredient_Rounded(ingredientMap, ing, servingRatio) ==
    LET key == IngredientKey(ing)
        amount == Round2(RatTimes(ing.quantity, servingRatio))
    IN  IF \E i \in DOMAIN ingredientMap : ingredientMap[i].key = key
        THEN LET i == CHOOSE j \in DOMAIN ingredientMap :
                          ingredientMap[j].key = key
             IN  [ingredientMap EXCEPT
                     ![i].item.quantity = RatAdd(@, amount)]
        ELSE Append(ingredientMap,
                    [key |-> key,
                     item |-> [name |-> ing.name, quantity |-> amount,
                               unit |-> ing.unit, category |-> ing.category]])

\* ingredientMap is a Map: a sequence of [key, item] in insertion order.
AddIngredient(ingredientMap, ing, servingRatio) ==
    LET key == IngredientKey(ing)
        amount == RatTimes(ing.quantity, servingRatio)
    IN  IF \E i \in DOMAIN ingredientMap : ingredientMap[i].key = key
        THEN LET i == CHOOSE j \in DOMAIN ingredientMap :
                          ingredientMap[j].key = key
             IN  [ingredientMap EXCEPT
                     ![i].item.quantity = RatAdd(@, amount)]
        ELSE Append(ingredientMap,
                    [key |-> key,
                     item |-> [name |-> ing.name, quantity |-> amount,
                               unit |-> ing.unit, category |-> ing.category]])

RECURSIVE AddIngredients(_, _, _)
AddIngredients(ingredientMap, ingredients, servingRatio) ==
    IF ingredients = <<>> THEN ingredientMap
    ELSE AddIngredients(
             AddIngredient(ingredientMap, Head(ingredients), servingRatio),
             Tail(ingredients), servingRatio)

\* Stops at the first entry whose dish is missing (break for continue).
RECURSIVE Accumulate_Break(_, _, _)
Accumulate_Break(ctx, ingredientMap, weekMeals) ==
    IF weekMeals = <<>> THEN ingredientMap
    ELSE LET meal == Head(weekMeals)
         IN  IF meal.dishId = NoId \/ ~Exists(ctx.dishes, meal.dishId)
             THEN ingredientMap
             ELSE LET dish == Get(ctx.dishes, meal.dishId)
                  IN  Accumulate_Break(ctx,
                          AddIngredients(ingredientMap, dish.ingredients,
                                         ServingRatio(meal, dish)),
                          Tail(weekMeals))

RECURSIVE Accumulate(_, _, _)
Accumulate(ctx, ingredientMap, weekMeals) ==
    IF weekMeals = <<>> THEN ingredientMap
    ELSE LET meal == Head(weekMeals)
         IN  IF meal.dishId = NoId \/ ~Exists(ctx.dishes, meal.dishId)
             THEN Accumulate(ctx, ingredientMap, Tail(weekMeals))
             ELSE LET dish == Get(ctx.dishes, meal.dishId)
                  IN  Accumulate(ctx,
                          AddIngredients(ingredientMap, dish.ingredients,
                                         ServingRatio(meal, dish)),
                          Tail(weekMeals))

RECURSIVE RoundAll(_)
RoundAll(entries) ==
    IF entries = <<>> THEN <<>>
    ELSE <<[Head(entries).item EXCEPT !.quantity = Round2(@)]>>
             \o RoundAll(Tail(entries))

\* grouped is an object literal {}: a lookup grouped[category] that finds no
\* own property falls through to Object.prototype, whose properties are
\* functions or objects (truthy) without a push method.
ObjectPrototypeKeys ==
    {"constructor", "__proto__", "hasOwnProperty", "isPrototypeOf",
     "propertyIsEnumerable", "toLocaleString", "toString", "valueOf",
     "__defineGetter__", "__defineSetter__", "__lookupGetter__",
     "__lookupSetter__"}

\* grouped[item.category].push is not a function.
PushFails(ingredientMap) ==
    \E i \in DOMAIN ingredientMap :
        ingredientMap[i].item.category \in ObjectPrototypeKeys

\* grouped: category -> items in insertion order, then sorted by name.
Grouped(ingredientMap) ==
    IF PushFails(ingredientMap) THEN [error |-> "TypeError"]
    ELSE [category \in
              {ingredientMap[i].item.category : i \in DOMAIN ingredientMap}
            |-> SortByName(RoundAll(SelectSeq(ingredientMap,
                    LAMBDA e : e.item.category = category)))]

WeekMealsForShopping(ctx, householdId, startDate) ==
    LET dates == WeekDates(ctx.tz, startDate)
        meals == ByHouseholdId(ctx.mealPlans, householdId)
    IN  SelectSeq(meals, LAMBDA m : /\ Includes(dates, m.day)
                                    /\ CountsForShopping(m)
                                    /\ m.dishId # NoId)

getWeekShoppingList(ctx, householdId, startDate) ==
    Grouped(Accumulate(ctx, <<>>,
                       WeekMealsForShopping(ctx, householdId, startDate)))

----------------------------------------------------------------------------
(* A call of the query getWeekShoppingList.  The handler is registered with *)
(* query(...): it reads the tables and returns; `listed` is the answer of   *)
(* the last call together with what that call was asked and what it read.   *)

NoAnswer == [startDate |-> -1, ledger |-> {}, catalog |-> {}, grouped |-> <<>>]

\* Answers from the previous call when the arguments are the same.
ShoppingQuery_Memo(householdId, startDate) ==
    /\ listed' =
           [startDate |-> startDate, ledger |-> mealPlans, catalog |-> dishes,
            grouped |-> IF listed.startDate = startDate THEN listed.grouped
                        ELSE getWeekShoppingList(Ctx, householdId, startDate)]
    /\ UNCHANGED <<mealPlans, dishes, mealCount, dishCount, tz, requests>>

ShoppingQuery(householdId, startDate) ==
    /\ listed' =
           [startDate |-> startDate, ledger |-> mealPlans, catalog |-> dishes,
            grouped |-> getWeekShoppingList(Ctx, householdId, startDate)]
    /\ UNCHANGED <<mealPlans, dishes, mealCount, dishCount, tz, requests>>

----------------------------------------------------------------------------
(* Mutations of the meal-plan ledger: convex/mealPlans.ts *)

planMeal(args) ==
    /\ mealPlans' = Insert(mealPlans, mealCount,
           [day |-> args.day, mealType |-> args.mealType,
            dishId |-> args.dishId, customName |-> args.customName,
            servingsUsed |-> args.servingsUsed, status |-> "planned",
            isLeftover |-> args.isLeftover,
            sourceMealId |-> args.sourceMealId,
            householdId |-> args.householdId])
    /\ mealCount' = mealCount + 1
    /\ UNCHANGED <<dishes, dishCount, tz, requests, listed>>

EatenStatus == "eaten"

eatMeal(id) ==
    /\ Exists(mealPlans, id)
    /\ mealPlans' = Patch(mealPlans, id, [status |-> EatenStatus])
    /\ UNCHANGED <<dishes, mealCount, dishCount, tz, requests, listed>>

skipMeal_Slot(id) ==
    /\ Exists(mealPlans, id)
    /\ mealPlans' =
           {IF d.day = Get(mealPlans, id).day THEN [d EXCEPT !.status = "skipped"]
            ELSE d : d \in mealPlans}
    /\ UNCHANGED <<dishes, mealCount, dishCount, tz, requests, listed>>

skipMeal(id) ==
    /\ Exists(mealPlans, id)
    /\ mealPlans' = Patch(mealPlans, id, [status |-> "skipped"])
    /\ UNCHANGED <<dishes, mealCount, dishCount, tz, requests, listed>>

update_Replan(id, dishId, customName, servingsUsed, isLeftover, sourceMealId) ==
    /\ Exists(mealPlans, id)
    /\ mealPlans' = Patch(mealPlans, id,
           [dishId |-> dishId, customName |-> customName,
            servingsUsed |-> servingsUsed, isLeftover |-> isLeftover,
            sourceMealId |-> sourceMealId, status |-> "planned"])
    /\ UNCHANGED <<dishes, mealCount, dishCount, tz, requests, listed>>

update(id, dishId, customName, servingsUsed, isLeftover, sourceMealId) ==
    /\ Exists(mealPlans, id)
    /\ mealPlans' = Patch(mealPlans, id,
           [dishId |-> dishId, customName |-> customName,
            servingsUsed |-> servingsUsed, isLeftover |-> isLeftover,
            sourceMealId |-> sourceMealId])
    /\ UNCHANGED <<dishes, mealCount, dishCount, tz, requests, listed>>

VoidEntry_Planned(sourceMeal, dish, remaining, today) ==
    [day |-> today, mealType |-> "dinner", dishId |-> sourceMeal.dishId,
     customName |-> dish.name \o " (voided)", servingsUsed |-> remaining,
     status |-> "planned", isLeftover |-> TRUE,
     sourceMealId |-> sourceMeal._id, householdId |-> sourceMeal.householdId]

VoidEntry(sourceMeal, dish, remaining, today) ==
    [day |-> today, mealType |-> "dinner", dishId |-> sourceMeal.dishId,
     customName |-> dish.name \o " (voided)", servingsUsed |-> remaining,
     status |-> "eaten", isLeftover |-> TRUE,
     sourceMealId |-> sourceMeal._id, householdId |-> sourceMeal.householdId]

NothingRemains_Below(remaining) == remaining < 0

NothingRemains(remaining) == remaining <= 0

VoidInserts(ctx, sourceMealId) ==
    /\ Exists(ctx.mealPlans, sourceMealId)
    /\ Get(ctx.mealPlans, sourceMealId).dishId # NoId
    /\ Exists(ctx.dishes, Get(ctx.mealPlans, sourceMealId).dishId)
    /\ ~NothingRemains(Remaining(ctx, Get(ctx.mealPlans, sourceMealId)))

voidLeftovers(sourceMealId, today) ==
    /\ IF VoidInserts(Ctx, sourceMealId)
       THEN LET sourceMeal == Get(mealPlans, sourceMealId)
                dish == Get(dishes, sourceMeal.dishId)
                remaining == Remaining(Ctx, sourceMeal)
            IN  /\ mealCount < MaxMeals
                /\ mealPlans' = Insert(mealPlans, mealCount,
                       VoidEntry(sourceMeal, dish, remaining, today))
                /\ mealCount' = mealCount + 1
       ELSE UNCHANGED <<mealPlans, mealCount>>
    /\ UNCHANGED <<dishes, dishCount, tz, requests, listed>>

remove_Cascade(id) ==
    /\ Exists(mealPlans, id)
    /\ mealPlans' = {d \in Delete(mealPlans, id) : d.sourceMealId # id}
    /\ UNCHANGED <<dishes, mealCount, dishCount, tz, requests, listed>>

remove(id) ==
    /\ Exists(mealPlans, id)
    /\ mealPlans' = Delete(mealPlans, id)
    /\ UNCHANGED <<dishes, mealCount, dishCount, tz, requests, listed>>

----------------------------------------------------------------------------
(* voidLeftovers under concurrent calls.  The handler is registered with    *)
(* mutation(...), so each call runs as one transaction of the Convex        *)
(* runtime: its reads see the tables as they were when it began, and at     *)
(* commit a call that writes is checked against what has been committed     *)
(* since; if a document or index range it read has changed, its writes are  *)
(* dropped and the handler runs again from the start.                       *)

RequestIds == 1..MaxRequests

NoReads == [mealPlans |-> {}, dishes |-> {}, tz |-> "UTC"]

IdleRequest ==
    [pc |-> "idle", sourceMealId |-> NoId, reads |-> NoReads, attempts |-> 0,
     returned |-> "nothing"]

\* What the handler reads: the source entry, its dish, and the by_dishId
\* range of the dish.
ReadSet(ctx, sourceMealId) ==
    IF ~Exists(ctx.mealPlans, sourceMealId) THEN <<"no entry">>
    ELSE LET sourceMeal == Get(ctx.mealPlans, sourceMealId)
         IN  IF sourceMeal.dishId = NoId THEN <<sourceMeal>>
             ELSE <<sourceMeal,
                    {d \in ctx.dishes : d._id = sourceMeal.dishId},
                    ByDishId(ctx.mealPlans, sourceMeal.dishId)>>

Conflict_Never(r) == FALSE

\* The transaction of request r read something that has changed since.
Conflict(r) ==
    ReadSet(requests[r].reads, requests[r].sourceMealId)
        # ReadSet(Ctx, requests[r].sourceMealId)

\* A call arrives, or is run again: the handler starts on the tables as they are.
BeginVoid(r, sourceMealId) ==
    /\ requests[r].pc \in {"idle", "again"}
    /\ requests[r].pc = "again" => sourceMealId = requests[r].sourceMealId
    /\ requests' = [requests EXCEPT ![r] =
           [pc |-> "running", sourceMealId |-> sourceMealId, reads |-> Ctx,
            attempts |-> @.attempts + 1, returned |-> "nothing"]]
    /\ UNCHANGED <<mealPlans, dishes, mealCount, dishCount, tz, listed>>

\* The handler has run on what it read; its insert, if any, is committed, or
\* the call is run again.
CommitVoid(r, today) ==
    LET req == requests[r]
        sourceMealId == req.sourceMealId
    IN  /\ req.pc = "running"
        /\ IF ~VoidInserts(req.reads, sourceMealId)
           THEN /\ requests' = [requests EXCEPT ![r] =
                       [@ EXCEPT !.pc = "done", !.reads = NoReads,
                                 !.returned = "null"]]
                /\ UNCHANGED <<mealPlans, mealCount>>
           ELSE IF Conflict(r)
           THEN /\ requests' = [requests EXCEPT ![r] =
                       [@ EXCEPT !.pc = "again", !.reads = NoReads]]
                /\ UNCHANGED <<mealPlans, mealCount>>
           ELSE LET sourceMeal == Get(req.reads.mealPlans, sourceMealId)
                    dish == Get(req.reads.dishes, sourceMeal.dishId)
                    remaining == Remaining(req.reads, sourceMeal)
                IN  /\ mealCount < MaxMeals + MaxRequests
                    /\ mealPlans' = Insert(mealPlans, mealCount,
                           VoidEntry(sourceMeal, dish, remaining, today))
                    /\ mealCount' = mealCount + 1
                    /\ requests' = [requests EXCEPT ![r] =
                           [@ EXCEPT !.pc = "done", !.reads = NoReads,
                                     !.returned = "id"]]
        /\ UNCHANGED <<dishes, dishCount, tz, listed>>

----------------------------------------------------------------------------
(* Mutations of the dish catalog: convex/dishes.ts *)

createDish(name, ingredients, defaultServings, householdId) ==
    /\ dishCount < MaxDishes
    /\ dishes' = Insert(dishes, dishCount,
           [name |-> name, ingredients |-> ingredients,
            defaultServings |-> defaultServings, householdId |-> householdId])
    /\ dishCount' = dishCount + 1
    /\ UNCHANGED <<mealPlans, mealCount, tz, requests, listed>>

updateDish(id, name, ingredients, defaultServings) ==
    /\ Exists(dishes, id)
    /\ dishes' = Patch(dishes, id,
           [name |-> name, ingredients |-> ingredients,
            defaultServings |-> defaultServings])
    /\ UNCHANGED <<mealPlans, mealCount, dishCount, tz, requests, listed>>

removeDish(id) ==
    /\ Exists(dishes, id)
    /\ dishes' = Delete(dishes, id)
    /\ UNCHANGED <<mealPlans, mealCount, dishCount, tz, requests, listed>>

----------------------------------------------------------------------------
(* Spec: the ledger under every meal-plan mutation.  The catalog holds two *)
(* dishes created earlier through dishes.create; either may be deleted.    *)
(* Arguments are whatever the validators of the mutations admit: the id of *)
(* any document that exists or existed, either household, the leftover    *)
(* flag and the source link chosen independently of each other.            *)

Beans == [name |-> "beans", quantity |-> 2, unit |-> "can",
          category |-> "Pantry"]

Soup == [_id |-> 1, name |-> "Soup", ingredients |-> <<Beans>>,
         defaultServings |-> 3, householdId |-> HOUSEHOLD_ID]

Chili == [_id |-> 2, name |-> "Chili", ingredients |-> <<Beans>>,
          defaultServings |-> 2, householdId |-> HOUSEHOLD_ID]

ServingsIn == {1, 2}
HouseholdsIn == {HOUSEHOLD_ID, OtherHousehold}
Today == 0

IssuedMealIds == 1..mealCount
IssuedDishIds == 1..dishCount

NameFor(dishId) == IF dishId = NoId THEN "Toast" ELSE NoName

Seeded(catalog, zone) ==
    /\ mealPlans = {}
    /\ dishes = catalog
    /\ mealCount = 0
    /\ dishCount = Cardinality(catalog)
    /\ tz = zone
    /\ requests = [r \in RequestIds |-> IdleRequest]
    /\ listed = NoAnswer

PlanIn(days, dishIds, servings, flags, sources, households) ==
    \E day \in days, dishId \in dishIds, servingsUsed \in servings,
       isLeftover \in flags, sourceMealId \in sources,
       householdId \in households :
        /\ mealCount < MaxMeals
        /\ planMeal([day |-> day, mealType |-> "dinner", dishId |-> dishId,
                     customName |-> NameFor(dishId),
                     servingsUsed |-> servingsUsed, isLeftover |-> isLeftover,
                     sourceMealId |-> sourceMealId,
                     householdId |-> householdId])

UpdateIn(dishIds, servings, flags, sources) ==
    \E id \in IssuedMealIds, dishId \in dishIds, servingsUsed \in servings,
       isLeftover \in flags, sourceMealId \in sources :
        update(id, dishId, NameFor(dishId), servingsUsed, isLeftover,
               sourceMealId)

EatStep == \E id \in IssuedMealIds : eatMeal(id)

SkipStep == \E id \in IssuedMealIds : skipMeal(id)

VoidStep == \E id \in IssuedMealIds : voidLeftovers(id, Today)

RemoveStep == \E id \in IssuedMealIds : remove(id)

RemoveDishStep == \E id \in IssuedDishIds : removeDish(id)

Init == Seeded({Soup, Chili}, "UTC")

PlanStep ==
    PlanIn({Today}, IssuedDishIds \cup {NoId}, ServingsIn, BOOLEAN,
           IssuedMealIds \cup {NoId}, {HOUSEHOLD_ID})

UpdateStep ==
    UpdateIn(IssuedDishIds \cup {NoId}, ServingsIn, BOOLEAN,
             IssuedMealIds \cup {NoId})

Next ==
    \/ PlanStep
    \/ EatStep
    \/ SkipStep
    \/ UpdateStep
    \/ VoidStep
    \/ RemoveStep
    \/ RemoveDishStep

Spec == Init /\ [][Next]_vars

----------------------------------------------------------------------------
(* SpecTenants: the same mutations called for two households.  The API     *)
(* takes householdId as an argument of planMeal, so an entry of one        *)
(* household can name an entry of the other as its source.                 *)

InitTenants == Seeded({Soup}, "UTC")

PlanTenantStep ==
    PlanIn({Today}, IssuedDishIds \cup {NoId}, ServingsIn, BOOLEAN,
           IssuedMealIds \cup {NoId}, HouseholdsIn)

NextTenants ==
    \/ PlanTenantStep
    \/ EatStep
    \/ SkipStep
    \/ UpdateStep
    \/ VoidStep
    \/ RemoveStep
    \/ RemoveDishStep

SpecTenants == InitTenants /\ [][NextTenants]_vars

----------------------------------------------------------------------------
(* SpecShop: the catalog is built through dishes.create from ingredient    *)
(* lists that repeat a name with another unit, another category or another *)
(* letter case, and meals are planned on a day inside and a day outside    *)
(* the requested week.                                                     *)

Rice == [name |-> "rice", quantity |-> 1, unit |-> "cup", category |-> "Pantry"]

PantryList == <<Rice, Beans>>

VariantList ==
    <<Beans,
      [name |-> "beans", quantity |-> 1, unit |-> "g", category |-> "Pantry"],
      [name |-> "beans", quantity |-> 1, unit |-> "can", category |-> "Produce"],
      [name |-> "Beans", quantity |-> 1, unit |-> "can", category |-> "Pantry"]>>

PipeList ==
    <<[name |-> "a|", quantity |-> 1, unit |-> "", category |-> "Pantry"],
      [name |-> "a", quantity |-> 1, unit |-> "|", category |-> "Pantry"]>>

DishArgsIn ==
    {[name |-> "Chili", ingredients |-> PantryList, defaultServings |-> 2],
     [name |-> "Salad", ingredients |-> VariantList, defaultServings |-> 3],
     [name |-> "Mix", ingredients |-> PipeList, defaultServings |-> 1]}

ShopDaysIn == {0, 7}
StartDatesIn == {0, 1}

InitShop == Seeded({}, "UTC")

CreateDishStep ==
    \E args \in DishArgsIn :
        createDish(args.name, args.ingredients, args.defaultServings,
                   HOUSEHOLD_ID)

UpdateDishStep ==
    \E id \in IssuedDishIds, args \in DishArgsIn :
        updateDish(id, args.name, args.ingredients, args.defaultServings)

PlanShopStep ==
    PlanIn(ShopDaysIn, IssuedDishIds \cup {NoId}, ServingsIn, {FALSE}, {NoId},
           {HOUSEHOLD_ID})

UpdateShopStep ==
    UpdateIn(IssuedDishIds \cup {NoId}, ServingsIn, {FALSE}, {NoId})

NextShop ==
    \/ CreateDishStep
    \/ UpdateDishStep
    \/ RemoveDishStep
    \/ PlanShopStep
    \/ EatStep
    \/ SkipStep
    \/ UpdateShopStep
    \/ VoidStep
    \/ RemoveStep

SpecShop == InitShop /\ [][NextShop]_vars

----------------------------------------------------------------------------
(* SpecWeek: the runtime's time zone is part of the environment; entries   *)
(* are planned on the days around a week that holds the start of daylight  *)
(* saving time (day 6, 2026-03-08, when day 0 is 2026-03-02).              *)

ZonesIn == {"UTC", "America/Los_Angeles"}
WeekDaysIn == 0..13
WeekStartsIn == 0..7

InitWeek == \E zone \in ZonesIn : Seeded({Soup}, zone)

PlanWeekStep ==
    PlanIn(WeekDaysIn, IssuedDishIds, {1}, {FALSE}, {NoId}, {HOUSEHOLD_ID})

NextWeek ==
    \/ PlanWeekStep
    \/ EatStep
    \/ SkipStep
    \/ RemoveStep
    \/ RemoveDishStep

SpecWeek == InitWeek /\ [][NextWeek]_vars

----------------------------------------------------------------------------
(* The dashboard: components/dashboard.  The calendar shows, per slot, the  *)
(* first entry of the week with that day and meal type; an empty slot       *)
(* opens AddMealModal, an occupied one MealActionModal, whose Edit button   *)
(* opens AddMealModal on the same slot.                                     *)

NoMeal == [kind |-> "undefined"]

\* meals.find((m) => m.day === day && m.mealType === mealType)
getMeal(meals, day, mealType) ==
    LET hits == SelectSeq(meals, LAMBDA m : m.day = day /\ m.mealType = mealType)
    IN  IF hits = <<>> THEN NoMeal ELSE Head(hits)

Min(a, b) == IF a < b THEN a ELSE b

handleSelectDish(day, mealType, dish) ==
    planMeal([day |-> day, mealType |-> mealType, dishId |-> dish._id,
              customName |-> NoName, servingsUsed |-> dish.defaultServings,
              isLeftover |-> FALSE, sourceMealId |-> NoId,
              householdId |-> HOUSEHOLD_ID])

handleSelectCustom(day, mealType, name) ==
    planMeal([day |-> day, mealType |-> mealType, dishId |-> NoId,
              customName |-> name, servingsUsed |-> 1, isLeftover |-> FALSE,
              sourceMealId |-> NoId, householdId |-> HOUSEHOLD_ID])

handleSelectLeftover(day, mealType, sourceMealId, dish, available) ==
    planMeal([day |-> day, mealType |-> mealType, dishId |-> dish._id,
              customName |-> NoName,
              servingsUsed |-> Min(available, dish.defaultServings),
              isLeftover |-> TRUE, sourceMealId |-> sourceMealId,
              householdId |-> HOUSEHOLD_ID])

handleEat(meal) == eatMeal(meal._id)

handleSkip(meal) == skipMeal(meal._id)

handleDelete(meal) == remove(meal._id)

\* The leftover section of the selector: one button per listed source.
SelectLeftover(day, mealType) ==
    LET leftoverSources == getLeftoverSources(Ctx, HOUSEHOLD_ID)
    IN  \E i \in DOMAIN leftoverSources :
            handleSelectLeftover(day, mealType, leftoverSources[i].meal._id,
                                 leftoverSources[i].dish,
                                 leftoverSources[i].available)

\* DishSelector inside AddMealModal, opened on a slot.
AddMealModal(day, mealType) ==
    \/ \E dish \in {d \in dishes : d.householdId = HOUSEHOLD_ID} :
           handleSelectDish(day, mealType, dish)
    \/ handleSelectCustom(day, mealType, "Toast")
    \/ SelectLeftover(day, mealType)

MealTypesIn == {"lunch", "dinner"}
DashDaysIn == {0, 1}

\* The week the calendar shows.
ShownWeek == getWeek(Ctx, HOUSEHOLD_ID, Today)

\* Click on an empty slot, choose in the selector.
AddMealFlow ==
    \E day \in DashDaysIn, mealType \in MealTypesIn :
        /\ getMeal(ShownWeek, day, mealType) = NoMeal
        /\ mealCount < MaxMeals
        /\ AddMealModal(day, mealType)

\* Click on a shown meal, press Edit, choose in the selector.
EditFlow ==
    \E day \in DashDaysIn, mealType \in MealTypesIn :
        /\ getMeal(ShownWeek, day, mealType) # NoMeal
        /\ mealCount < MaxMeals
        /\ AddMealModal(day, mealType)

\* Click on a shown meal that is planned, press "Ate it" or "Skipped".
EatFlow ==
    \E day \in DashDaysIn, mealType \in MealTypesIn :
        LET meal == getMeal(ShownWeek, day, mealType)
        IN  meal # NoMeal /\ meal.status = "planned" /\ handleEat(meal)

SkipFlow ==
    \E day \in DashDaysIn, mealType \in MealTypesIn :
        LET meal == getMeal(ShownWeek, day, mealType)
        IN  meal # NoMeal /\ meal.status = "planned" /\ handleSkip(meal)

DeleteFlow ==
    \E day \in DashDaysIn, mealType \in MealTypesIn :
        LET meal == getMeal(ShownWeek, day, mealType)
        IN  meal # NoMeal /\ handleDelete(meal)

InitDashboard == Seeded({Soup}, "UTC")

NextDashboard ==
    \/ AddMealFlow
    \/ EditFlow
    \/ EatFlow
    \/ SkipFlow
    \/ DeleteFlow
    \/ UpdateDishStep
    \/ RemoveDishStep

SpecDashboard == InitDashboard /\ [][NextDashboard]_vars

----------------------------------------------------------------------------
(* SpecBoundary: planMeal and update called with every number the argument *)
(* validator v.number() lets through, among them zero and a negative one.  *)

NumbersIn == {-1, 0, 1}

InitBoundary == Seeded({Soup}, "UTC")

PlanBoundaryStep ==
    PlanIn({Today}, IssuedDishIds \cup {NoId}, NumbersIn, {FALSE}, {NoId},
           {HOUSEHOLD_ID})

UpdateBoundaryStep ==
    UpdateIn(IssuedDishIds \cup {NoId}, NumbersIn, {FALSE}, {NoId})

NextBoundary ==
    \/ PlanBoundaryStep
    \/ UpdateBoundaryStep
    \/ EatStep
    \/ VoidStep
    \/ RemoveStep

SpecBoundary == InitBoundary /\ [][NextBoundary]_vars

----------------------------------------------------------------------------
(* SpecVoid: two voidLeftovers calls in flight at once, next to planMeal    *)
(* and eatMeal calls.                                                       *)

InitVoid == Seeded({Soup}, "UTC")

PlanVoidStep ==
    PlanIn({Today}, IssuedDishIds, ServingsIn, {FALSE}, {NoId}, {HOUSEHOLD_ID})

BeginVoidStep ==
    \E r \in RequestIds, id \in IssuedMealIds : BeginVoid(r, id)

CommitVoidStep == \E r \in RequestIds : CommitVoid(r, Today)

NextVoid ==
    \/ PlanVoidStep
    \/ EatStep
    \/ BeginVoidStep
    \/ CommitVoidStep

SpecVoid == InitVoid /\ [][NextVoid]_vars

----------------------------------------------------------------------------
(* SpecCatalog: dishes.create and dishes.update called with every number    *)
(* the argument validator v.number() lets through for defaultServings,      *)
(* zero and a negative one among them, next to planMeal calls that put the  *)
(* dishes on the ledger.                                                    *)

CreateAnyDishStep ==
    \E defaultServings \in NumbersIn :
        createDish("Chili", PantryList, defaultServings, HOUSEHOLD_ID)

UpdateAnyDishStep ==
    \E id \in IssuedDishIds, defaultServings \in NumbersIn :
        updateDish(id, "Chili", PantryList, defaultServings)

PlanCatalogStep ==
    PlanIn({Today}, IssuedDishIds, {1}, {FALSE}, {NoId}, {HOUSEHOLD_ID})

NextCatalog ==
    \/ CreateAnyDishStep
    \/ UpdateAnyDishStep
    \/ RemoveDishStep
    \/ PlanCatalogStep
    \/ EatStep

SpecCatalog == Seeded({}, "UTC") /\ [][NextCatalog]_vars

----------------------------------------------------------------------------
(* SpecQuery: getWeekShoppingList called again and again while the ledger   *)
(* and the catalog change between the calls and change back.                *)

Stew == [_id |-> 2, name |-> "Stew", ingredients |-> VariantList,
         defaultServings |-> 3, householdId |-> HOUSEHOLD_ID]

PlanQueryStep ==
    PlanIn({Today}, IssuedDishIds, ServingsIn, {FALSE}, {NoId}, {HOUSEHOLD_ID})

UpdateQueryStep == UpdateIn(IssuedDishIds, ServingsIn, {FALSE}, {NoId})

ShoppingQueryStep ==
    \E startDate \in StartDatesIn : ShoppingQuery(HOUSEHOLD_ID, startDate)

NextQuery ==
    \/ PlanQueryStep
    \/ UpdateQueryStep
    \/ SkipStep
    \/ RemoveStep
    \/ RemoveDishStep
    \/ ShoppingQueryStep

SpecQuery == Seeded({Soup, Stew}, "UTC") /\ [][NextQuery]_vars

----------------------------------------------------------------------------
(* SpecGroup: dishes are created with whatever category strings the         *)
(* validator v.string() admits: ordinary ones, the empty string, and the    *)
(* name of a property every JavaScript object inherits.                     *)

GroupDishArgsIn ==
    {[name |-> "Chili", ingredients |-> PantryList, defaultServings |-> 2],
     [name |-> "Salad", ingredients |-> VariantList, defaultServings |-> 3],
     [name |-> "Plain", defaultServings |-> 1,
      ingredients |-> <<[name |-> "salt", quantity |-> 1, unit |-> "",
                         category |-> ""], Rice>>],
     [name |-> "Odd", defaultServings |-> 1,
      ingredients |-> <<[name |-> "glue", quantity |-> 1, unit |-> "",
                         category |-> "constructor"]>>]}

CreateGroupDishStep ==
    \E args \in GroupDishArgsIn :
        createDish(args.name, args.ingredients, args.defaultServings,
                   HOUSEHOLD_ID)

NextGroup ==
    \/ CreateGroupDishStep
    \/ RemoveDishStep
    \/ PlanShopStep
    \/ SkipStep
    \/ RemoveStep

SpecGroup == Seeded({}, "UTC") /\ [][NextGroup]_vars

----------------------------------------------------------------------------
(* SpecChain: a ledger of up to three entries of one dish, linked through   *)
(* sourceMealId in every way planMeal admits: an entry may name as its      *)
(* source an entry that is itself a leftover of a third.                    *)

PlanChainStep ==
    \E isLeftover \in BOOLEAN, sourceMealId \in IssuedMealIds \cup {NoId} :
        /\ mealCount < MaxChain
        /\ planMeal([day |-> Today, mealType |-> "dinner", dishId |-> Soup._id,
                     customName |-> NoName, servingsUsed |-> 1,
                     isLeftover |-> isLeftover, sourceMealId |-> sourceMealId,
                     householdId |-> HOUSEHOLD_ID])

NextChain ==
    \/ PlanChainStep
    \/ EatStep

SpecChain == Seeded({Soup}, "UTC") /\ [][NextChain]_vars

----------------------------------------------------------------------------
(* SpecLeftovers: a dish is cooked and partly eaten, and its leftovers are  *)
(* planned through the add-meal flow of the dashboard and marked eaten      *)
(* there.  The cook entry is planned with fewer servings than the dish      *)
(* yields, which planMeal admits.                                           *)

PlanSourceStep ==
    \E servingsUsed \in ServingsIn :
        /\ mealCount < MaxChain
        /\ planMeal([day |-> Today, mealType |-> "dinner", dishId |-> Soup._id,
                     customName |-> NoName, servingsUsed |-> servingsUsed,
                     isLeftover |-> FALSE, sourceMealId |-> NoId,
                     householdId |-> HOUSEHOLD_ID])

\* Click on an empty slot, choose one of the offered leftovers.
AddLeftoverFlow ==
    \E day \in DashDaysIn, mealType \in MealTypesIn :
        /\ getMeal(ShownWeek, day, mealType) = NoMeal
        /\ mealCount < MaxChain
        /\ SelectLeftover(day, mealType)

NextLeftovers ==
    \/ PlanSourceStep
    \/ AddLeftoverFlow
    \/ EatFlow

SpecLeftovers == Seeded({Soup}, "UTC") /\ [][NextLeftovers]_vars

----------------------------------------------------------------------------
(* Leftover accounting: the properties *)

RECURSIVE SumOfServings(_)
SumOfServings(entries) ==
    IF entries = {} THEN 0
    ELSE LET e == CHOOSE x \in entries : TRUE
         IN  e.servingsUsed + SumOfServings(entries \ {e})

\* Every eaten entry charged to a source: the source itself and the entries
\* whose sourceMealId names it.
ChargedTo(entries, sourceMealId) ==
    {m \in entries : /\ m.status = "eaten"
                     /\ (m._id = sourceMealId \/ m.sourceMealId = sourceMealId)}

HasDish(m) == m.dishId # NoId /\ Exists(dishes, m.dishId)

DefaultServingsOf(m) == Get(dishes, m.dishId).defaultServings

AllMealIds == 0..MaxMeals

\* C1: for a source meal whose dish exists with defaultServings S,
\* getAvailableLeftovers returns S - U when U <= S and 0 when U >= S, U being
\* the servingsUsed total of ALL eaten entries that are the source or link to it.
C1_LeftoverConservation ==
    \A m \in mealPlans :
        (IsSourceMeal(m) /\ HasDish(m)) =>
            LET S == DefaultServingsOf(m)
                U == SumOfServings(ChargedTo(mealPlans, m._id))
            IN  getAvailableLeftovers(Ctx, m._id) = IF U <= S THEN S - U ELSE 0

\* C2: getAvailableLeftovers is >= 0 for every meal id, live or not, and every
\* item getLeftoverSources returns has available > 0.
C2_NeverNegative ==
    /\ \A id \in AllMealIds : getAvailableLeftovers(Ctx, id) >= 0
    /\ \A h \in HouseholdsIn :
           LET sources == getLeftoverSources(Ctx, h)
           IN  \A i \in DOMAIN sources : sources[i].available > 0

\* C2 witness: a source whose eaten servings exceed the dish's defaultServings,
\* so that the unclamped difference is negative.
C2_Witness ==
    \E m \in mealPlans :
        /\ IsSourceMeal(m) /\ HasDish(m)
        /\ Remaining(Ctx, m) < 0
        /\ getAvailableLeftovers(Ctx, m._id) = 0

IsVoidEntryFor(e, sourceMeal, R) ==
    /\ e.status = "eaten"
    /\ e.isLeftover
    /\ e.servingsUsed = R
    /\ e.sourceMealId = sourceMeal._id
    /\ e.dishId = sourceMeal.dishId
    /\ e.householdId = sourceMeal.householdId

\* C3: voidLeftovers(source) with remaining servings R > 0 inserts exactly one
\* entry (eaten, isLeftover, servingsUsed = R, linked to the source, with the
\* source's dish and household), changes no other entry, and right afterwards
\* getAvailableLeftovers(source) is 0.
C3_VoidWritesOff ==
    [][\A id \in MealIds :
          LET R == getAvailableLeftovers(Ctx, id)
          IN  (R > 0 /\ voidLeftovers(id, Today)) =>
                  /\ mealPlans \subseteq mealPlans'
                  /\ Cardinality(mealPlans' \ mealPlans) = 1
                  /\ \A e \in mealPlans' \ mealPlans :
                         IsVoidEntryFor(e, Get(mealPlans, id), R)
                  /\ getAvailableLeftovers(Ctx', id) = 0]_vars

\* C3 witness: a void entry carrying R > 0 servings has been inserted for a live
\* source, whose availability is now 0.
C3_Witness ==
    \E e \in mealPlans :
        /\ e.customName \in {"Soup (voided)", "Chili (voided)"}
        /\ Exists(mealPlans, e.sourceMealId)
        /\ IsVoidEntryFor(e, Get(mealPlans, e.sourceMealId), e.servingsUsed)
        /\ e.servingsUsed > 0
        /\ HasDish(e)
        /\ getAvailableLeftovers(Ctx, e.sourceMealId) = 0

\* C4: voidLeftovers(source) called where getAvailableLeftovers(source) = 0
\* takes the path that returns null: it inserts nothing, leaves the ledger as it
\* is, and getAvailableLeftovers(source) stays 0.
C4_VoidIdempotent ==
    /\ [](\A id \in AllMealIds :
              getAvailableLeftovers(Ctx, id) = 0 => ~VoidInserts(Ctx, id))
    /\ [][\A id \in AllMealIds :
              (getAvailableLeftovers(Ctx, id) = 0 /\ voidLeftovers(id, Today)) =>
                  /\ UNCHANGED <<mealPlans, mealCount>>
                  /\ getAvailableLeftovers(Ctx', id) = 0]_vars

\* C4 witness: a source already written off by a void entry, with nothing
\* left: the state in which a second voidLeftovers call arrives.
C4_Witness ==
    \E e \in mealPlans :
        /\ e.customName \in {"Soup (voided)", "Chili (voided)"}
        /\ Exists(mealPlans, e.sourceMealId)
        /\ HasDish(Get(mealPlans, e.sourceMealId))
        /\ getAvailableLeftovers(Ctx, e.sourceMealId) = 0
        /\ ~VoidInserts(Ctx, e.sourceMealId)

\* C5: the only status changes an entry undergoes are planned -> eaten and
\* planned -> skipped; entries created by planMeal start planned; eatMeal and
\* skipMeal leave the status of an eaten or skipped entry as it was.
C5_StatusMachine ==
    [][\A m \in mealPlans : \A n \in mealPlans' :
          (n._id = m._id /\ n.status # m.status) => m.status = "planned"]_vars

OfHousehold(entries, householdId) ==
    {m \in entries : m.householdId = householdId}

\* What is left of a source, counting the eaten entries of its household.
LeftOf(m) ==
    DefaultServingsOf(m)
        - SumOfServings(ChargedTo(OfHousehold(mealPlans, m.householdId), m._id))

Items(seq) == {seq[i] : i \in DOMAIN seq}

\* C9: getLeftoverSources(household) lists exactly the household's entries that
\* are eaten, not leftover and reference a dish (one that exists), whose
\* available servings are > 0, each once, paired with its dish, the entry and
\* that available value; a source whose eaten servings reach defaultServings is
\* not listed.
C9_LeftoverSources ==
    \A h \in HouseholdsIn :
        LET sources == getLeftoverSources(Ctx, h)
        IN  /\ Items(sources) =
                   {[meal |-> m, dish |-> Get(dishes, m.dishId),
                     available |-> LeftOf(m)] :
                       m \in {x \in OfHousehold(mealPlans, h) :
                                 /\ x.status = "eaten"
                                 /\ ~x.isLeftover
                                 /\ HasDish(x)
                                 /\ LeftOf(x) > 0}}
            /\ Len(sources) = Cardinality(Items(sources))
            /\ \A m \in OfHousehold(mealPlans, h) :
                   (HasDish(m) /\ m.status = "eaten"
                        /\ m.servingsUsed >= DefaultServingsOf(m)) =>
                       \A i \in DOMAIN sources : sources[i].meal._id # m._id

\* C9 witness: one household has a listed source whose positive remainder is
\* reduced by a linked eaten entry of the household, while the list of the
\* other household is empty.
C9_Witness ==
    \E h \in HouseholdsIn, g \in HouseholdsIn :
        LET sources == getLeftoverSources(Ctx, h)
        IN  /\ g # h
            /\ Len(sources) = 1
            /\ sources[1].available = 1
            /\ \E e \in OfHousehold(mealPlans, h) :
                   e.sourceMealId = sources[1].meal._id /\ e.status = "eaten"
                       /\ e._id # sources[1].meal._id
            /\ getLeftoverSources(Ctx, g) = <<>>

----------------------------------------------------------------------------
(* Shopping list: the properties *)

ShoppingList(entries, startDate) ==
    getWeekShoppingList([Ctx EXCEPT !.mealPlans = entries], HOUSEHOLD_ID,
                        startDate)

WithStatus(m, status) == (mealPlans \ {m}) \cup {[m EXCEPT !.status = status]}

InWeek(m, startDate) == m.day \in startDate..(startDate + 6)

\* C6 as stated: a planned entry contributes nothing to getWeekShoppingList:
\* the list is the one computed without the entry, and marking the entry
\* skipped gives the same list as leaving it planned.
C6_PlannedContributesNothing ==
    \A m \in mealPlans : \A s \in StartDatesIn :
        m.status = "planned" =>
            /\ ShoppingList(mealPlans, s) = ShoppingList(mealPlans \ {m}, s)
            /\ ShoppingList(mealPlans, s)
                   = ShoppingList(WithStatus(m, "skipped"), s)

\* C6 as amended: skipped entries alone are left out; a planned entry counts
\* exactly as it does once eaten, so marking a planned entry eaten leaves the
\* shopping list as it is, and marking it skipped gives the list without it.
C6_PlannedCountsLikeEaten ==
    \A m \in mealPlans : \A s \in StartDatesIn :
        m.status = "planned" =>
            /\ ShoppingList(mealPlans, s)
                   = ShoppingList(WithStatus(m, "eaten"), s)
            /\ ShoppingList(WithStatus(m, "skipped"), s)
                   = ShoppingList(mealPlans \ {m}, s)

\* C6 witness: a planned entry of the week with a dish in the catalog whose
\* ingredients are on the list: the list without the entry differs.
C6_Witness ==
    \E m \in mealPlans : \E s \in StartDatesIn :
        /\ m.status = "planned"
        /\ InWeek(m, s)
        /\ HasDish(m)
        /\ ShoppingList(mealPlans, s) # ShoppingList(mealPlans \ {m}, s)
        /\ ShoppingList(mealPlans, s) = ShoppingList(WithStatus(m, "eaten"), s)

\* C7: a skipped entry contributes nothing to getWeekShoppingList, also when
\* it lies in the week and has a dish and servings: the result is the result
\* computed on the ledger without the entry.
C7_SkippedExcluded ==
    \A m \in mealPlans : \A s \in StartDatesIn :
        m.status = "skipped" =>
            ShoppingList(mealPlans, s) = ShoppingList(mealPlans \ {m}, s)

\* C7 witness: a skipped entry in the week with a dish in the catalog, next to
\* another entry that puts lines on the list.
C7_Witness ==
    \E m \in mealPlans : \E s \in StartDatesIn :
        /\ m.status = "skipped"
        /\ InWeek(m, s)
        /\ HasDish(m)
        /\ Get(dishes, m.dishId).ingredients # <<>>
        /\ m.servingsUsed > 0
        /\ DOMAIN ShoppingList(mealPlans, s) # {}

Triple(ing) == <<ing.name, ing.unit, ing.category>>

\* An occurrence: an ingredient of the dish of an entry that counts for the week.
Occurrences(startDate) ==
    {<<m, i>> : m \in {x \in mealPlans : /\ x.householdId = HOUSEHOLD_ID
                                         /\ InWeek(x, startDate)
                                         /\ x.status # "skipped"
                                         /\ HasDish(x)},
                i \in 1..4} \cap
    {o \in mealPlans \X (1..4) :
        HasDish(o[1]) /\ o[2] \in DOMAIN Get(dishes, o[1].dishId).ingredients}

IngredientOf(o) == Get(dishes, o[1].dishId).ingredients[o[2]]

AmountOf(o) ==
    RatTimes(IngredientOf(o).quantity,
             Rat(o[1].servingsUsed, DefaultServingsOf(o[1])))

RECURSIVE SumOfAmounts(_)
SumOfAmounts(occurrences) ==
    IF occurrences = {} THEN Rat(0, 1)
    ELSE LET o == CHOOSE x \in occurrences : TRUE
         IN  RatAdd(AmountOf(o), SumOfAmounts(occurrences \ {o}))

Lines(grouped) ==
    {<<c, i>> : c \in DOMAIN grouped, i \in 1..8} \cap
    {l \in (DOMAIN grouped) \X (1..8) : l[2] \in DOMAIN grouped[l[1]]}

LineItem(grouped, l) == grouped[l[1]][l[2]]

\* C8: two occurrences are merged into one line iff their (name, unit,
\* category) triples are equal: the lines correspond one to one to the
\* distinct triples, and each line's quantity is the sum over the occurrences
\* of its triple of quantity * servingsUsed / defaultServings (rounded to 2
\* decimals in the result).
C8_MergeByTriple ==
    \A s \in StartDatesIn :
        LET grouped == ShoppingList(mealPlans, s)
            occ == Occurrences(s)
            triples == {Triple(IngredientOf(o)) : o \in occ}
        IN  /\ {Triple(LineItem(grouped, l)) : l \in Lines(grouped)} = triples
            /\ Cardinality(Lines(grouped)) = Cardinality(triples)
            /\ \A l \in Lines(grouped) :
                   LineItem(grouped, l).quantity =
                       Round2(SumOfAmounts(
                           {o \in occ : Triple(IngredientOf(o))
                                            = Triple(LineItem(grouped, l))}))

----------------------------------------------------------------------------
(* Week window: the properties *)

\* C10: getWeek(household, startDate) returns exactly the household's entries
\* whose day is one of startDate .. startDate + 6, and in every time zone the
\* 7 generated day keys are distinct, consecutive and begin at startDate.
C10_WeekWindow ==
    \A s \in WeekStartsIn :
        LET week == getWeek(Ctx, HOUSEHOLD_ID, s)
        IN  /\ WeekDates(tz, s) = [i \in 1..7 |-> s + i - 1]
            /\ {week[i]._id : i \in DOMAIN week} =
                   {m._id : m \in {x \in OfHousehold(mealPlans, HOUSEHOLD_ID) :
                                      x.day \in s..(s + 6)}}
            /\ Len(week) = Cardinality({week[i]._id : i \in DOMAIN week})

----------------------------------------------------------------------------
(* Joins, frames and visibility: the properties *)

\* C11: in getWeek results every entry carries a dish field that is the dish
\* document when the referenced dish exists, and null both for a custom entry
\* (no dishId) and for an entry whose dish has been deleted.
C11_DishJoin ==
    LET week == getWeek(Ctx, HOUSEHOLD_ID, Today)
    IN  \A i \in DOMAIN week :
            week[i].dish =
                IF HasDish(week[i])
                THEN [kind |-> "doc", doc |-> Get(dishes, week[i].dishId)]
                ELSE NullDish

\* The tables as they would be if only householdId owned records.
OwnCtx(householdId) ==
    [Ctx EXCEPT !.mealPlans = OfHousehold(mealPlans, householdId),
                !.dishes = {d \in dishes : d.householdId = householdId}]

\* C12: the results of getWeek, getLeftoverSources, getWeekShoppingList and
\* getAvailableLeftovers for a household's data are the same whatever another
\* household owns: they equal the results computed on the household's own
\* records alone.
C12_NoCrossHousehold ==
    \A h \in HouseholdsIn :
        /\ getWeek(Ctx, h, Today) = getWeek(OwnCtx(h), h, Today)
        /\ getLeftoverSources(Ctx, h) = getLeftoverSources(OwnCtx(h), h)
        /\ getWeekShoppingList(Ctx, h, Today)
               = getWeekShoppingList(OwnCtx(h), h, Today)
        /\ \A m \in OfHousehold(mealPlans, h) :
               getAvailableLeftovers(Ctx, m._id)
                   = getAvailableLeftovers(OwnCtx(h), m._id)

\* The part of C12 about getAvailableLeftovers alone, for sources whose dish
\* the household owns.
C12_AvailableOwn ==
    \A h \in HouseholdsIn : \A m \in OfHousehold(mealPlans, h) :
        (HasDish(m) /\ Get(dishes, m.dishId).householdId = h) =>
            getAvailableLeftovers(Ctx, m._id)
                = getAvailableLeftovers(OwnCtx(h), m._id)

\* C13: in every reachable ledger state there is at most one entry per
\* (household, day, meal slot).
C13_SlotUniqueness ==
    \A m \in mealPlans : \A n \in mealPlans :
        (m.householdId = n.householdId /\ m.day = n.day
             /\ m.mealType = n.mealType) => m._id = n._id

\* C14: remove(id) deletes the entry id and nothing else: every other entry is
\* unchanged, and entries whose sourceMealId = id keep that sourceMealId, their
\* status and their servingsUsed.
C14_RemoveNoCascade ==
    [][\A id \in MealIds :
          remove(id) =>
              /\ mealPlans' = mealPlans \ {Get(mealPlans, id)}
              /\ \A e \in mealPlans :
                     (e._id # id /\ e.sourceMealId = id) =>
                         /\ Exists(mealPlans', e._id)
                         /\ Get(mealPlans', e._id).sourceMealId = id
                         /\ Get(mealPlans', e._id).status = e.status
                         /\ Get(mealPlans', e._id).servingsUsed = e.servingsUsed
              /\ dishes' = dishes]_vars

\* C14 witness: an eaten entry whose source was planned before it and has been
\* removed: its sourceMealId dangles.
C14_Witness ==
    \E e \in mealPlans :
        /\ e.sourceMealId # NoId
        /\ e.sourceMealId < e._id
        /\ e.sourceMealId \in IssuedMealIds
        /\ ~Exists(mealPlans, e.sourceMealId)
        /\ e.status = "eaten"

\* C15: getAvailableLeftovers(id) is 0 when the entry id does not exist (any
\* more), when it has no dishId and when its dish has been deleted, and
\* getLeftoverSources omits the entries whose dish is missing.
C15_MissingDegradesToZero ==
    /\ \A id \in AllMealIds :
           (\/ ~Exists(mealPlans, id)
            \/ Get(mealPlans, id).dishId = NoId
            \/ ~Exists(dishes, Get(mealPlans, id).dishId)) =>
               getAvailableLeftovers(Ctx, id) = 0
    /\ \A h \in HouseholdsIn :
           LET sources == getLeftoverSources(Ctx, h)
           IN  \A i \in DOMAIN sources :
                   /\ HasDish(sources[i].meal)
                   /\ sources[i].dish = Get(dishes, sources[i].meal.dishId)

\* C15 witness: an entry id that has been removed, and an eaten source with
\* servings left whose dish has been deleted and which is not listed.
C15_Witness ==
    /\ \E id \in IssuedMealIds : ~Exists(mealPlans, id)
    /\ \E m \in mealPlans :
           /\ IsSourceMeal(m)
           /\ ~Exists(dishes, m.dishId)
           /\ m.servingsUsed = 1
           /\ getLeftoverSources(Ctx, HOUSEHOLD_ID) = <<>>

\* C16: update(id, fields) replaces dishId, customName, servingsUsed,
\* isLeftover and sourceMealId of the entry id and nothing else: its day,
\* mealType, householdId and status stay, and no other entry changes.
C16_UpdateFrame ==
    [][\A id \in MealIds :
          (/\ Exists(mealPlans, id)
           /\ Exists(mealPlans', id)
           /\ LET args == Get(mealPlans', id)
              IN  update(id, args.dishId, args.customName, args.servingsUsed,
                         args.isLeftover, args.sourceMealId)) =>
              LET old == Get(mealPlans, id)
                  new == Get(mealPlans', id)
              IN  /\ new.day = old.day
                  /\ new.mealType = old.mealType
                  /\ new.householdId = old.householdId
                  /\ new.status = old.status
                  /\ mealPlans' \ {new} = mealPlans \ {old}
                  /\ dishes' = dishes]_vars

\* C16 witness: an eaten entry that names as its source an entry created
\* after it, which only an update can have written.
C16_Witness ==
    \E e \in mealPlans :
        /\ e.sourceMealId > e._id
        /\ e.status = "eaten"
        /\ Exists(mealPlans, e.sourceMealId)

EatenEntries(entries) == {m \in entries : m.status = "eaten"}

AvailableValues(ctx, householdId) ==
    LET sources == getLeftoverSources(ctx, householdId)
    IN  {<<sources[i].meal._id, sources[i].available>> : i \in DOMAIN sources}

\* C17: planned entries are outside leftover accounting.  A planMeal step,
\* also one that links the new entry to a source, leaves
\* getAvailableLeftovers of every entry and the available values of
\* getLeftoverSources as they were; and getAvailableLeftovers of an entry
\* changes only in a step that changes the entry itself, the eaten entries
\* (one becomes eaten, an eaten one is changed or removed) or the dishes.
C17_PlannedExcluded ==
    [][/\ PlanStep =>
              /\ \A id \in MealIds :
                     Exists(mealPlans, id) =>
                         getAvailableLeftovers(Ctx', id)
                             = getAvailableLeftovers(Ctx, id)
              /\ AvailableValues(Ctx', HOUSEHOLD_ID)
                     = AvailableValues(Ctx, HOUSEHOLD_ID)
       /\ \A id \in MealIds :
              (/\ Exists(mealPlans, id)
               /\ Exists(mealPlans', id)
               /\ Get(mealPlans', id) = Get(mealPlans, id)
               /\ EatenEntries(mealPlans') = EatenEntries(mealPlans)
               /\ dishes' = dishes) =>
                  getAvailableLeftovers(Ctx', id)
                      = getAvailableLeftovers(Ctx, id)]_vars

\* C17 witness: a planned entry of the source's dish linked to an eaten source
\* whose availability is still defaultServings minus its own servings.
C17_Witness ==
    \E src \in mealPlans : \E e \in mealPlans :
        /\ IsSourceMeal(src) /\ HasDish(src)
        /\ e.status = "planned"
        /\ e.sourceMealId = src._id
        /\ e.dishId = src.dishId
        /\ e._id > src._id
        /\ getAvailableLeftovers(Ctx, src._id)
               = DefaultServingsOf(src) - src.servingsUsed
        /\ getAvailableLeftovers(Ctx, src._id) > 0
        /\ AvailableValues(Ctx, HOUSEHOLD_ID)
               = {<<src._id, DefaultServingsOf(src) - src.servingsUsed>>}

\* The entry ids whose record a step inserts, patches or deletes.
Written ==
    {id \in 1..(MaxMeals + 1) :
        \/ Exists(mealPlans, id) # Exists(mealPlans', id)
        \/ /\ Exists(mealPlans, id)
           /\ Exists(mealPlans', id)
           /\ Get(mealPlans, id) # Get(mealPlans', id)}

\* A step that is a planMeal call: its arguments are read off the new entry.
IsPlanMeal ==
    /\ Exists(mealPlans', mealCount + 1)
    /\ planMeal(Get(mealPlans', mealCount + 1))

\* A step that is an update call: its arguments are read off the patched entry.
IsUpdate ==
    \E id \in MealIds :
        /\ Exists(mealPlans, id)
        /\ Exists(mealPlans', id)
        /\ LET args == Get(mealPlans', id)
           IN  update(id, args.dishId, args.customName, args.servingsUsed,
                      args.isLeftover, args.sourceMealId)

\* C19: each write operation (planMeal, eatMeal, skipMeal, update, remove,
\* voidLeftovers) inserts, patches or deletes at most one mealPlans record and
\* leaves every other meal-plan record and every dish unchanged.
C19_SingleRecordWrites ==
    [][(EatStep \/ SkipStep \/ RemoveStep \/ VoidStep \/ IsPlanMeal \/ IsUpdate)
           => (Cardinality(Written) <= 1 /\ dishes' = dishes)]_vars

\* C19 witness: a ledger of two entries on which writes have acted: one
\* entry skipped next to an entry that is still planned.
C19_Witness ==
    \E m \in mealPlans : \E n \in mealPlans :
        /\ m._id # n._id
        /\ m.day = n.day
        /\ m.status = "skipped"
        /\ n.status = "planned"

\* C20: every entry in the ledger has a positive servingsUsed after any
\* sequence of operations: planMeal and update with servings below 1 do not
\* reach the ledger, and voidLeftovers writes servingsUsed > 0.
C20_PositiveServings == \A m \in mealPlans : m.servingsUsed > 0

----------------------------------------------------------------------------
(* Concurrent voids: the properties *)

VoidEntriesOf(sourceMealId) ==
    {e \in mealPlans : e.isLeftover /\ e.sourceMealId = sourceMealId}

----------------------------------------------------------------------------
(* Catalog and aggregation: the properties *)

\* C21: every dish in the catalog has defaultServings >= 1 after any sequence
\* of dishes.create and dishes.update calls, so that the divisor of
\* servingsUsed / defaultServings in getWeekShoppingList is never zero.
C21_DefaultServingsAtLeastOne ==
    \A d \in dishes : d.defaultServings >= 1

ContributionsTo(item, startDate) ==
    {o \in Occurrences(startDate) :
        IngredientKey(IngredientOf(o)) = IngredientKey(item)}

RECURSIVE SumOfRounded(_)
SumOfRounded(occurrences) ==
    IF occurrences = {} THEN Rat(0, 1)
    ELSE LET o == CHOOSE x \in occurrences : TRUE
         IN  RatAdd(Round2(AmountOf(o)), SumOfRounded(occurrences \ {o}))

\* C23: each line's quantity is rounded to 2 decimals once, after all the
\* contributions to the line have been added up unrounded: the reported
\* quantity is round2(sum of the contributions), which differs from the sum of
\* the rounded contributions where these disagree.
C23_RoundOnceAtEnd ==
    \A s \in StartDatesIn :
        LET grouped == ShoppingList(mealPlans, s)
        IN  \A l \in Lines(grouped) :
                LineItem(grouped, l).quantity =
                    Round2(SumOfAmounts(
                        ContributionsTo(LineItem(grouped, l), s)))

\* C23 witness: a line fed by two contributions of 2/3 each: reported 1.33,
\* where rounding each contribution first would give 0.67 + 0.67 = 1.34.
C23_Witness ==
    \E s \in StartDatesIn :
        LET grouped == ShoppingList(mealPlans, s)
        IN  \E l \in Lines(grouped) :
                LET parts == ContributionsTo(LineItem(grouped, l), s)
                IN  /\ Cardinality(parts) = 2
                    /\ \A o \in parts : AmountOf(o) = Rat(2, 3)
                    /\ LineItem(grouped, l).quantity = Rat(133, 100)
                    /\ SumOfRounded(parts) = Rat(134, 100)

\* The merged lines of a week: the values of ingredientMap before grouping.
MergedLines(startDate) ==
    Accumulate(Ctx, <<>>, WeekMealsForShopping(Ctx, HOUSEHOLD_ID, startDate))

IsGrouping(grouped, merged) ==
    /\ \A c \in DOMAIN grouped : grouped[c] # <<>>
    /\ Cardinality(Lines(grouped)) = Len(merged)
    /\ \A i \in DOMAIN merged :
           Cardinality({l \in Lines(grouped) :
                           /\ l[1] = merged[i].item.category
                           /\ IngredientKey(LineItem(grouped, l))
                                  = merged[i].key}) = 1
    /\ \A c \in DOMAIN grouped : \A i \in DOMAIN grouped[c] :
           \A j \in DOMAIN grouped[c] :
               i < j => LocaleCompare(grouped[c][i].name,
                                      grouped[c][j].name) <= 0

\* C24: the result of getWeekShoppingList maps each category string (the
\* empty string as a bucket of its own) to a non-empty list; every merged line
\* appears exactly once, in the list of its own category; and each list is
\* sorted ascending by ingredient name.
C24_Grouping ==
    \A s \in StartDatesIn :
        /\ ~PushFails(MergedLines(s))
        /\ IsGrouping(ShoppingList(mealPlans, s), MergedLines(s))

\* The statement of C24 for the weeks whose categories are not names of
\* inherited object properties.
C24_GroupingOfOwnKeys ==
    \A s \in StartDatesIn :
        ~PushFails(MergedLines(s)) =>
            IsGrouping(ShoppingList(mealPlans, s), MergedLines(s))

\* A list with the empty-string bucket next to a bucket of two sorted lines.
C24_OwnKeysWitness ==
    \E s \in StartDatesIn :
        LET grouped == ShoppingList(mealPlans, s)
        IN  /\ ~PushFails(MergedLines(s))
            /\ "" \in DOMAIN grouped
            /\ \E c \in DOMAIN grouped : Len(grouped[c]) >= 2

----------------------------------------------------------------------------
(* Leftover chains and read paths: the properties *)

\* The source entry and the entries linked directly to it.
DirectCircle(sourceMealId) ==
    {m \in mealPlans : m._id = sourceMealId \/ m.sourceMealId = sourceMealId}

\* C25: the leftover relation is one level deep.  getAvailableLeftovers of an
\* entry is what it is on the ledger of the entry and the entries linked
\* directly to it; for a leftover entry L of a source, taking away an entry
\* recorded against L (and not against the source) leaves
\* getAvailableLeftovers(source) as it is; and getLeftoverSources lists no
\* leftover entry.
C25_OneLevelChain ==
    /\ \A src \in mealPlans :
           getAvailableLeftovers(Ctx, src._id)
               = getAvailableLeftovers(
                     [Ctx EXCEPT !.mealPlans = DirectCircle(src._id)], src._id)
    /\ \A src \in mealPlans, L \in mealPlans, e \in mealPlans :
           (/\ L.isLeftover /\ L.sourceMealId = src._id /\ L._id # src._id
            /\ e.sourceMealId = L._id /\ e \notin DirectCircle(src._id)) =>
               getAvailableLeftovers([Ctx EXCEPT !.mealPlans = mealPlans \ {e}],
                                     src._id)
                   = getAvailableLeftovers(Ctx, src._id)
    /\ LET sources == getLeftoverSources(Ctx, HOUSEHOLD_ID)
       IN  \A i \in DOMAIN sources : ~sources[i].meal.isLeftover

\* C25 witness: an eaten source of 3 servings, an eaten leftover entry L linked
\* to it, and an eaten entry linked to L: the source has 3 - 1 - 1 = 1 left,
\* and L is not listed as a source.
C25_Witness ==
    \E src \in mealPlans, L \in mealPlans, e \in mealPlans :
        /\ IsSourceMeal(src) /\ src.sourceMealId = NoId
        /\ L.isLeftover /\ L.sourceMealId = src._id /\ L.status = "eaten"
        /\ e.sourceMealId = L._id /\ e.status = "eaten" /\ e.isLeftover
        /\ Cardinality({src, L, e}) = 3
        /\ getAvailableLeftovers(Ctx, src._id) = 1
        /\ LET sources == getLeftoverSources(Ctx, HOUSEHOLD_ID)
           IN  {sources[i].meal._id : i \in DOMAIN sources} = {src._id}

\* C26: an entry without a resolvable dish (a custom-named entry without
\* dishId, or an entry whose dish has been deleted) adds nothing to
\* getWeekShoppingList, and the query returns the aggregate of the remaining
\* entries: the result is the result computed on the ledger without the entry.
C26_UnresolvedContributeNothing ==
    \A m \in mealPlans : \A s \in StartDatesIn :
        ~HasDish(m) =>
            ShoppingList(mealPlans, s) = ShoppingList(mealPlans \ {m}, s)

\* C26 witness: an entry of the week that counts by status and whose dish has
\* been deleted, created before an entry whose dish exists and puts lines on
\* the list.
C26_Witness ==
    \E m \in mealPlans, n \in mealPlans : \E s \in StartDatesIn :
        /\ m.dishId # NoId /\ ~Exists(dishes, m.dishId)
        /\ m.status # "skipped" /\ InWeek(m, s)
        /\ m._id < n._id
        /\ HasDish(n) /\ n.status # "skipped" /\ InWeek(n, s)
        /\ DOMAIN ShoppingList(mealPlans, s) # {}
        /\ ShoppingList(mealPlans, s) = ShoppingList({n}, s)

\* C27: the two leftover read paths agree.  Every entry getLeftoverSources
\* lists with value a has getAvailableLeftovers = a; and every eaten,
\* non-leftover entry with an existing dish and getAvailableLeftovers > 0 is
\* listed by getLeftoverSources of its household; whatever dish or household
\* the entries linked to the source have.
C27_ReadPathsAgree ==
    /\ \A h \in HouseholdsIn :
           LET sources == getLeftoverSources(Ctx, h)
           IN  \A i \in DOMAIN sources :
                   getAvailableLeftovers(Ctx, sources[i].meal._id)
                       = sources[i].available
    /\ \A m \in mealPlans :
           (IsSourceMeal(m) /\ HasDish(m)
                /\ getAvailableLeftovers(Ctx, m._id) > 0) =>
               LET sources == getLeftoverSources(Ctx, m.householdId)
               IN  \E i \in DOMAIN sources : sources[i].meal._id = m._id

\* C28: no over-consumption.  For every source meal the servingsUsed total of
\* the eaten entries charged to it (the source and the entries linked to it)
\* never exceeds the dish's defaultServings, when leftovers are planned
\* through the add-meal flow and later marked eaten.
C28_NoOverConsumption ==
    \A m \in mealPlans :
        (IsSourceMeal(m) /\ HasDish(m)) =>
            SumOfServings(ChargedTo(mealPlans, m._id)) <= DefaultServingsOf(m)

\* C29: leftover entries buy nothing.  An entry with isLeftover = true, the
\* "(voided)" entry inserted by voidLeftovers included, contributes no
\* ingredient quantity to getWeekShoppingList: the list is the list of the
\* ledger without the entry; and a voidLeftovers step leaves the shopping list
\* of every week unchanged.
C29_LeftoversBuyNothing ==
    /\ [](\A m \in mealPlans : \A s \in StartDatesIn :
              m.isLeftover =>
                  ShoppingList(mealPlans, s) = ShoppingList(mealPlans \ {m}, s))
    /\ [][VoidStep =>
              \A s \in StartDatesIn :
                  getWeekShoppingList(Ctx', HOUSEHOLD_ID, s)
                      = getWeekShoppingList(Ctx, HOUSEHOLD_ID, s)]_vars

\* C30: voidLeftovers writes off servings only for a genuine source meal (an
\* eaten entry that is not a leftover and has a dish): called on an entry that
\* is still planned or skipped, or on a leftover entry, it inserts nothing and
\* leaves the ledger unchanged.
C30_VoidOnlyForSources ==
    [][\A id \in MealIds :
          (/\ Exists(mealPlans, id)
           /\ ~IsSourceMeal(Get(mealPlans, id))
           /\ voidLeftovers(id, Today)) =>
              UNCHANGED <<mealPlans, mealCount>>]_vars

====
